---- MODULE Spec2Model ----
(***************************************************************************)
(* SmartFit AI (src/app.py): the rule-based estimation engine behind the   *)
(* dashboard.  The script is re-run on every interaction: the sidebar      *)
(* radio selects a page, the widgets of that page hold the inputs, and a   *)
(* button press runs one handler that computes a result from the inputs.  *)
(*                                                                         *)
(* Numbers.  The code computes in binary floating point; the model keeps   *)
(* exact scaled integers:                                                  *)
(*   kcal            in 1/100     (after round(.., 2))                     *)
(*   kcal * factors  in 1/10000   (1/100 kcal * tenths * tenths)           *)
(*   kg              in 1/770000  (1/100 kcal over 7700 kcal/kg)           *)
(*   height          in cm        (the widgets step by 0.01 m)             *)
(*   bmi             as a fraction num/den                                 *)
(* The one place where the floating-point error decides a result, a tie of *)
(* round(.., 2), is tabulated from the double-precision evaluation.        *)
(***************************************************************************)
EXTENDS Integers, Sequences, FiniteSets, TLC

VARIABLES page, op, inp, out

vars == <<page, op, inp, out>>

(***************************************************************************)
(* Bounds of the input samples.                                            *)
(***************************************************************************)
WeightSpan == 1
DurationSpan == 1
AgeSpan == 0
ProfileSpan == 1

Pages == {"Dashboard", "Predictions", "Fitness Profiles", "Diet Planner",
          "Workout Recommender", "Data Explorer"}

Genders == {"Male", "Female"}
Intensities == {"Low", "Medium", "High", "Very High"}
WorkoutTypes == {"Cardio", "Strength", "HIIT", "Yoga", "Sports"}
Experiences == {"Beginner", "Intermediate", "Advanced", "Elite"}
ProjectionGoals == {"Weight Loss", "Maintenance", "Muscle Gain"}
DietGoals == {"Weight Loss", "Muscle Gain", "Maintenance", "Endurance"}
Difficulties == {"Low", "Medium", "High"}

Max(a, b) == IF a >= b THEN a ELSE b

(***************************************************************************)
(* calculate_bmi: weight / height^2, height given in centimetres.  The     *)
(* division raises ZeroDivisionError when height ** 2 is zero; nothing     *)
(* else is checked.                                                        *)
(***************************************************************************)
\* Variant: a height that is not positive is refused.
calculate_bmi_Validating(weight_kg, height_cm) ==
    [raised |-> IF height_cm <= 0 THEN "InvalidInputError" ELSE "none",
     num |-> weight_kg * 10000, den |-> height_cm * height_cm]

\* Variant: the height is not squared.
calculate_bmi_NoSquare(weight_kg, height_cm) ==
    [raised |-> IF height_cm = 0 THEN "ZeroDivisionError" ELSE "none",
     num |-> weight_kg * 10000, den |-> height_cm * 100]

calculate_bmi(weight_kg, height_cm) ==
    [raised |-> IF height_cm * height_cm = 0 THEN "ZeroDivisionError" ELSE "none",
     num |-> weight_kg * 10000, den |-> height_cm * height_cm]

BmiGt(bmi, n) == bmi.num > n * bmi.den
BmiLt(bmi, n) == bmi.num < n * bmi.den

(***************************************************************************)
(* calculate_calories_burned.  met_values is in tenths, so                 *)
(*   calories = met/10 * 3.5 * weight / 200 * duration                     *)
(*            = (met * 35 * weight * duration) / 200   hundredths of kcal. *)
(***************************************************************************)
met_values(intensity) ==
    CASE intensity = "Low" -> 35
      [] intensity = "Medium" -> 60
      [] intensity = "High" -> 85
      [] intensity = "Very High" -> 105
      [] OTHER -> 60

\* The <<met, weight, duration>> for which the exact value lies half-way
\* between two hundredths and the double computed by
\* (met * 3.5 * weight / 200) * duration rounds to the upper one; every
\* other half-way case of the sampled inputs rounds to the lower one.
\* Covers weight in 40..43, 70, 75, 150, 200 and duration in 10..15,
\* 20..25, 45, 120, 180, and the direct calls with weight -70 or
\* duration -45 ("upper" is towards plus infinity).
HalfUp ==
    { <<35, 41, 20>>, <<35, 42, 14>>, <<35, 43, 12>>, <<35, 70, 10>>,
      <<35, 75, 20>>, <<35, 75, 180>>, <<35, 150, 10>>,
      <<60, 41, 21>>, <<60, 75, 13>>, <<60, 75, 21>>, <<60, 75, 25>>,
      <<60, 75, 45>>,
      <<85, 41, 12>>, <<85, 41, 180>>, <<85, 43, 20>>, <<85, 43, 180>>,
      <<85, 70, 14>>, <<85, 75, 12>>, <<85, 150, 14>>, <<85, 150, 22>>,
      <<105, 41, 12>>, <<105, 41, 20>>, <<105, 41, 180>>, <<105, 42, 14>>,
      <<105, 43, 20>>, <<105, 70, 14>>, <<105, 70, 22>>, <<105, 75, 12>>,
      <<105, 150, 14>>, <<105, 150, 22>>,
      <<35, -70, 14>>, <<60, 41, -45>>, <<60, 43, -45>>, <<85, -70, 10>>,
      <<105, -70, 10>> }

\* Variant: the estimate is lowered by 1% for every year of age above 30.
calculate_calories_burned_AgeAdjusted(duration, intensity, weight, age) ==
    LET num == met_values(intensity) * 35 * weight * duration
    IN  ((num \div 200) * (130 - age)) \div 100

\* Variant: the divisor 1000 in place of 200.
calculate_calories_burned_Div1000(duration, intensity, weight, age) ==
    LET num == met_values(intensity) * 35 * weight * duration
    IN  (num + 500) \div 1000

calculate_calories_burned(duration, intensity, weight, age) ==
    LET met == met_values(intensity)
        num == met * 35 * weight * duration
        q == num \div 200
        r == num % 200
    IN  IF r < 100 THEN q
        ELSE IF r > 100 THEN q + 1
        ELSE IF <<met, weight, duration>> \in HalfUp THEN q + 1 ELSE q

(***************************************************************************)
(* Calorie Burn Predictor handler: the rounded estimate times the gender   *)
(* factor and the workout-type factor (both in tenths).                    *)
(***************************************************************************)
gender_factor(gender) == IF gender = "Male" THEN 11 ELSE 10

workout_factors(workout_type) ==
    CASE workout_type = "Cardio" -> 12
      [] workout_type = "Strength" -> 9
      [] workout_type = "HIIT" -> 15
      [] workout_type = "Yoga" -> 6
      [] workout_type = "Sports" -> 13
      [] OTHER -> 10

\* Variant: the product is rounded to 2 decimals once more.
PredictedCalories_RoundedAfter(duration, intensity, weight, age, gender, workout_type) ==
    LET v == calculate_calories_burned(duration, intensity, weight, age)
                * gender_factor(gender) * workout_factors(workout_type)
    IN  ((v + 50) \div 100) * 100

PredictedCalories(duration, intensity, weight, age, gender, workout_type) ==
    calculate_calories_burned(duration, intensity, weight, age)
        * gender_factor(gender) * workout_factors(workout_type)

(***************************************************************************)
(* Analyze Body Composition handler.  Body fat is kept as a fraction over  *)
(* 100 * bmi.den:                                                          *)
(*   1.20 * bmi + 0.23 * age - 16.2                                        *)
(*     = (120 * bmi.num + (23 * age - 1620) * bmi.den) / (100 * bmi.den).  *)
(***************************************************************************)
BodyFatRaw(bmi, age_bmi, gender_bmi) ==
    IF gender_bmi = "Male"
    THEN 120 * bmi.num + (23 * age_bmi - 1620) * bmi.den
    ELSE 120 * bmi.num + (23 * age_bmi - 540) * bmi.den

Min(a, b) == IF a <= b THEN a ELSE b

\* Variant: the lower clamp is missing.
body_fat_NoFloor(bmi, age_bmi, gender_bmi) ==
    [num |-> Min(50 * (100 * bmi.den), BodyFatRaw(bmi, age_bmi, gender_bmi)),
     den |-> 100 * bmi.den]

\* max(5, min(50, body_fat))
body_fat(bmi, age_bmi, gender_bmi) ==
    LET d == 100 * bmi.den
    IN  [num |-> Max(5 * d, Min(50 * d, BodyFatRaw(bmi, age_bmi, gender_bmi))),
         den |-> d]

\* Variant: a bmi of exactly 25 stays in the lower category.
category_AtMost25(bmi) ==
    IF 2 * bmi.num < 37 * bmi.den THEN "Underweight"
    ELSE IF bmi.num <= 25 * bmi.den THEN "Normal Weight"
    ELSE IF BmiLt(bmi, 30) THEN "Overweight"
    ELSE "Obese"

\* bmi < 18.5 is 2 * bmi.num < 37 * bmi.den
category(bmi) ==
    IF 2 * bmi.num < 37 * bmi.den THEN "Underweight"
    ELSE IF BmiLt(bmi, 25) THEN "Normal Weight"
    ELSE IF BmiLt(bmi, 30) THEN "Overweight"
    ELSE "Obese"

(***************************************************************************)
(* Workout Impact Predictor handler.                                       *)
(***************************************************************************)
weekly_deficit(diet_goal) ==
    CASE diet_goal = "Weight Loss" -> -500
      [] diet_goal = "Maintenance" -> 0
      [] diet_goal = "Muscle Gain" -> 300

\* Variant: the burn is not scaled by the number of workouts.
weekly_cal_burn_Once(workout_duration_avg, current_weight, weekly_workouts) ==
    calculate_calories_burned(workout_duration_avg, "Medium", current_weight, 30)

\* weekly_cal_burn, in hundredths of kcal
weekly_cal_burn(workout_duration_avg, current_weight, weekly_workouts) ==
    calculate_calories_burned(workout_duration_avg, "Medium", current_weight, 30)
        * weekly_workouts

\* Variant: the burn is taken off the balance.
net_weekly_Subtract(current_weight, weekly_workouts, workout_duration_avg, diet_goal) ==
    (weekly_deficit(diet_goal) * 7) * 100
        - weekly_cal_burn(workout_duration_avg, current_weight, weekly_workouts)

\* net_weekly, in hundredths of kcal
net_weekly(current_weight, weekly_workouts, workout_duration_avg, diet_goal) ==
    weekly_cal_burn(workout_duration_avg, current_weight, weekly_workouts)
        + (weekly_deficit(diet_goal) * 7) * 100

\* current_weight + (net_weekly / 7700) * w, in 1/770000 kg
WeightAt(current_weight, net, w) == current_weight * 770000 + net * w

\* list(range(start, stop, step)) for stop > start, step > 0
PyRange(start, stop, step) ==
    [i \in 1..(((stop - start - 1) \div step) + 1) |-> start + (i - 1) * step]

\* Variant: the step is taken from weeks // 20.
timeline_Step20(weeks) == PyRange(0, weeks + 1, Max(1, weeks \div 20))

timeline(weeks) == PyRange(0, weeks + 1, Max(1, weeks \div 10))

ProjectedSeries(current_weight, net, weeks) ==
    LET tl == timeline(weeks)
    IN  [i \in 1..Len(tl) |->
            [week |-> tl[i], weight |-> WeightAt(current_weight, net, tl[i])]]

(***************************************************************************)
(* Fitness Profiles handler: the ordered cluster rules.                    *)
(***************************************************************************)
\* Variant: the Beginner rule is missing.
ProfileCluster_NoBeginnerRule(bmi, user_bpm, user_experience, user_duration, user_frequency, user_intensity) ==
    IF user_bpm > 175 /\ user_experience = "Elite" /\ user_duration > 60
    THEN 0
    ELSE IF user_experience \in {"Advanced", "Elite"}
            /\ user_intensity \in {"High", "Very High"}
    THEN 1
    ELSE IF user_experience = "Intermediate" /\ user_frequency >= 3
    THEN 2
    ELSE IF BmiGt(bmi, 30) THEN 4 ELSE 2

\* Variant: the Strength Builder rule is tested before the Elite Athlete rule.
ProfileCluster_Rule2First(bmi, user_bpm, user_experience, user_duration, user_frequency, user_intensity) ==
    IF user_experience \in {"Advanced", "Elite"}
       /\ user_intensity \in {"High", "Very High"}
    THEN 1
    ELSE IF user_bpm > 175 /\ user_experience = "Elite" /\ user_duration > 60
    THEN 0
    ELSE IF user_experience = "Intermediate" /\ user_frequency >= 3
    THEN 2
    ELSE IF user_experience = "Beginner" \/ user_frequency <= 2
    THEN 3
    ELSE IF BmiGt(bmi, 30) THEN 4 ELSE 2

ProfileCluster(bmi, user_bpm, user_experience, user_duration, user_frequency, user_intensity) ==
    IF user_bpm > 175 /\ user_experience = "Elite" /\ user_duration > 60
    THEN 0
    ELSE IF user_experience \in {"Advanced", "Elite"}
            /\ user_intensity \in {"High", "Very High"}
    THEN 1
    ELSE IF user_experience = "Intermediate" /\ user_frequency >= 3
    THEN 2
    ELSE IF user_experience = "Beginner" \/ user_frequency <= 2
    THEN 3
    ELSE IF BmiGt(bmi, 30) THEN 4 ELSE 2

profiles ==
    [c \in 0..4 |->
        CASE c = 0 -> [name |-> "Elite Athletes"]
          [] c = 1 -> [name |-> "Strength Builders"]
          [] c = 2 -> [name |-> "Fitness Enthusiasts"]
          [] c = 3 -> [name |-> "Beginners"]
          [] c = 4 -> [name |-> "Health Focus"]]

get_fitness_cluster_profile(cluster_id) ==
    IF cluster_id \in DOMAIN profiles THEN profiles[cluster_id] ELSE profiles[2]

(***************************************************************************)
(* Diet Planner handler.                                                   *)
(***************************************************************************)
\* Variant: a bmi of exactly 22 counts as below 22.
DietCluster_AtMost22(bmi, diet_goal) ==
    IF bmi.num <= 22 * bmi.den /\ diet_goal = "Muscle Gain" THEN 1
    ELSE IF diet_goal = "Endurance" THEN 0
    ELSE IF BmiGt(bmi, 28) /\ diet_goal = "Weight Loss" THEN 4
    ELSE 2

DietCluster(bmi, diet_goal) ==
    IF BmiLt(bmi, 22) /\ diet_goal = "Muscle Gain" THEN 1
    ELSE IF diet_goal = "Endurance" THEN 0
    ELSE IF BmiGt(bmi, 28) /\ diet_goal = "Weight Loss" THEN 4
    ELSE 2

diets ==
    [g \in DietGoals |->
        CASE g = "Weight Loss" ->
                [calories |-> "1500-1800 kcal/day",
                 protein |-> "1.8-2.2g/kg bodyweight",
                 carbs |-> "100-150g/day",
                 fats |-> "40-60g/day",
                 meals |-> <<"Breakfast: Oatmeal with berries",
                             "Lunch: Grilled chicken salad",
                             "Dinner: Salmon with vegetables",
                             "Snacks: Greek yogurt, almonds">>]
          [] g = "Muscle Gain" ->
                [calories |-> "2500-3200 kcal/day",
                 protein |-> "2.0-2.5g/kg bodyweight",
                 carbs |-> "300-450g/day",
                 fats |-> "70-100g/day",
                 meals |-> <<"Breakfast: Eggs, whole grain toast, avocado",
                             "Lunch: Rice, chicken, vegetables",
                             "Dinner: Steak, sweet potato, broccoli",
                             "Snacks: Protein shake, nuts, banana">>]
          [] g = "Maintenance" ->
                [calories |-> "2000-2400 kcal/day",
                 protein |-> "1.5-1.8g/kg bodyweight",
                 carbs |-> "200-280g/day",
                 fats |-> "55-75g/day",
                 meals |-> <<"Breakfast: Smoothie bowl with granola",
                             "Lunch: Turkey wrap with vegetables",
                             "Dinner: Pasta with lean meat sauce",
                             "Snacks: Fruit, trail mix">>]
          [] g = "Endurance" ->
                [calories |-> "2800-3500 kcal/day",
                 protein |-> "1.4-1.8g/kg bodyweight",
                 carbs |-> "400-600g/day",
                 fats |-> "60-90g/day",
                 meals |-> <<"Breakfast: Pancakes with maple syrup",
                             "Lunch: Quinoa bowl with chicken",
                             "Dinner: Pasta with vegetables",
                             "Snacks: Energy bars, dried fruit, sports drinks">>]]

\* Variant: the Health Focus cluster is always given the Weight Loss plan.
get_diet_plan_ByCluster(cluster_id, goal) ==
    IF cluster_id = 4 THEN diets["Weight Loss"]
    ELSE IF goal \in DOMAIN diets THEN diets[goal] ELSE diets["Maintenance"]

get_diet_plan(cluster_id, goal) ==
    IF goal \in DOMAIN diets THEN diets[goal] ELSE diets["Maintenance"]

(***************************************************************************)
(* Workout Recommender handler.                                            *)
(***************************************************************************)
workouts ==
    [c \in 0..4 |->
        CASE c = 0 ->
                [High |-> <<"HIIT Training (45 min)", "Marathon Running (90 min)",
                            "CrossFit WOD (60 min)", "Olympic Lifting (75 min)">>,
                 Medium |-> <<"Tempo Running (60 min)", "Circuit Training (45 min)",
                              "Swimming (60 min)">>,
                 Low |-> <<"Easy Run (30 min)", "Yoga (45 min)",
                           "Stretching (20 min)">>]
          [] c = 1 ->
                [High |-> <<"Heavy Compound Lifts (75 min)",
                            "Powerlifting Session (90 min)",
                            "Strongman Training (60 min)">>,
                 Medium |-> <<"Hypertrophy Training (60 min)",
                              "Push/Pull Workout (45 min)",
                              "Functional Training (50 min)">>,
                 Low |-> <<"Light Weight Training (30 min)",
                           "Mobility Work (25 min)", "Core Strength (20 min)">>]
          [] c = 2 ->
                [High |-> <<"Interval Training (40 min)",
                            "Full Body Circuit (45 min)", "Spin Class (50 min)">>,
                 Medium |-> <<"Jogging (35 min)", "Bodyweight Exercises (30 min)",
                              "Pilates (40 min)">>,
                 Low |-> <<"Walking (25 min)", "Gentle Yoga (30 min)",
                           "Stretching (20 min)">>]
          [] c = 3 ->
                [High |-> <<"Beginner HIIT (25 min)", "Light Circuit (30 min)",
                            "Brisk Walking Hills (30 min)">>,
                 Medium |-> <<"Beginner Strength (30 min)",
                              "Low-Impact Cardio (25 min)", "Basic Yoga (30 min)">>,
                 Low |-> <<"Gentle Walking (20 min)", "Chair Exercises (15 min)",
                           "Breathing Exercises (10 min)">>]
          [] c = 4 ->
                [High |-> <<"Water Aerobics (30 min)", "Recumbent Bike (25 min)",
                            "Resistance Bands (20 min)">>,
                 Medium |-> <<"Gentle Walking (20 min)", "Chair Yoga (25 min)",
                              "Balance Training (20 min)">>,
                 Low |-> <<"Stretching (15 min)", "Seated Exercises (15 min)",
                           "Meditation (10 min)">>]]

\* workouts.get(cluster_id, workouts[2]).get(difficulty, workouts[cluster_id]['Medium']):
\* both arguments of the outer call are evaluated before it is made, so
\* workouts[cluster_id] raises KeyError for an id the table lacks.
get_workout_recommendations(cluster_id, difficulty) ==
    IF cluster_id \notin DOMAIN workouts
    THEN [raised |-> "KeyError", value |-> <<>>]
    ELSE IF difficulty \in DOMAIN workouts[cluster_id]
         THEN [raised |-> "none", value |-> workouts[cluster_id][difficulty]]
         ELSE [raised |-> "none", value |-> workouts[cluster_id]["Medium"]]

exp_to_cluster(workout_experience) ==
    CASE workout_experience = "Beginner" -> 3
      [] workout_experience = "Intermediate" -> 2
      [] workout_experience = "Advanced" -> 1
      [] workout_experience = "Elite" -> 0

days == <<"Monday", "Tuesday", "Wednesday", "Thursday", "Friday", "Saturday", "Sunday">>

RestDay == "Rest Day"

\* Variant: odd day-indexes are offset by two.
ScheduleIndex_OffsetTwo(i, len) == IF i % 2 = 0 THEN i % len ELSE (i + 2) % len

\* Variant: odd day-indexes are not offset.
ScheduleIndex_NoOffset(i, len) == i % len

\* The index into the (0-based) workout list chosen for day-index i.
ScheduleIndex(i, len) == IF i % 2 = 0 THEN i % len ELSE (i + 1) % len

\* Variant: one more training day than asked for.
workout_schedule_OneMore(wl, workout_days) ==
    [k \in 1..Len(days) |->
        IF k - 1 <= workout_days
        THEN [day |-> days[k], workout |-> wl[ScheduleIndex(k - 1, Len(wl)) + 1]]
        ELSE [day |-> days[k], workout |-> RestDay]]

\* workout_schedule, in insertion order; day-index i is element i + 1.
workout_schedule(wl, workout_days) ==
    [k \in 1..Len(days) |->
        IF k - 1 < workout_days
        THEN [day |-> days[k], workout |-> wl[ScheduleIndex(k - 1, Len(wl)) + 1]]
        ELSE [day |-> days[k], workout |-> RestDay]]

(***************************************************************************)
(* Input samples: values the widgets of each page can hold.                *)
(***************************************************************************)
Ages == {30} \cup (18..(18 + AgeSpan))
CalWeights == {70, 150} \cup (40..(40 + WeightSpan))
CalDurations == {45, 180} \cup (10..(10 + DurationSpan))
ProjWeights == {75} \cup (40..(40 + WeightSpan))
ProjDurations == {45} \cup (20..(20 + DurationSpan))
WeeklyWorkouts == 1..7
ProjWorkouts == {1, 4, 7}
Weeks == 4..52
ProfileWeights == {70, 120, 150}
ProfileHeights == {175, 200}
ProfileBpms == {160} \cup (175..(175 + ProfileSpan))
ProfileDurations == {45} \cup (60..(60 + ProfileSpan))
DietWeights == {50, 63, 70, 88, 100, 112}
DietHeights == {150, 175, 200}
WorkoutDays == 1..7

BodyWeights == {40, 70, 74, 100, 120, 200}
BodyHeights == {140, 175, 200, 220}
BodyAges == {18, 30, 80}

\* Arguments a direct call of a helper may carry beyond the widgets' options.
CallWeights == CalWeights \cup {0, -70}
CallDurations == CalDurations \cup {0, -45}
BmiWeights == {40, 70, 200}
BmiHeights == {-175, 0, 140, 175, 200}
AnyDifficulty == Difficulties \cup {"Extreme"}
AnyIntensity == Intensities \cup {"Extreme"}
AnyGoal == DietGoals \cup {"General Fitness"}
AnyCluster == (-1)..5

None == <<>>

Init ==
    /\ page = "Dashboard"
    /\ op = "none"
    /\ inp = None
    /\ out = None

\* The sidebar radio (or any widget edit, with p = page): the script re-runs,
\* no button handler fires and the previous result is no longer rendered.
\* A handler runs on the re-run its button triggers, so each starts from a
\* page without a result.
SelectPage(p) ==
    /\ page' = p
    /\ op' = "none"
    /\ inp' = None
    /\ out' = None

\* "Calculate Calories Burned"
PredictCalories(age, weight, duration, gender, intensity, workout_type) ==
    /\ page = "Predictions"
    /\ op = "none"
    /\ op' = "PredictCalories"
    /\ inp' = [age |-> age, weight |-> weight, duration |-> duration,
               gender |-> gender, intensity |-> intensity,
               workout_type |-> workout_type]
    /\ out' = [base |-> calculate_calories_burned(duration, intensity, weight, age),
               calories |-> PredictedCalories(duration, intensity, weight, age,
                                              gender, workout_type)]
    /\ UNCHANGED page

\* "Analyze Body Composition"
AnalyzeBody(weight_bmi, height_cm, age_bmi, gender_bmi) ==
    /\ page = "Predictions"
    /\ op = "none"
    /\ op' = "AnalyzeBody"
    /\ inp' = [weight_bmi |-> weight_bmi, height_cm |-> height_cm,
               age_bmi |-> age_bmi, gender_bmi |-> gender_bmi]
    /\ LET bmi == calculate_bmi(weight_bmi, height_cm)
       IN  out' = [bmi |-> bmi,
                   body_fat |-> body_fat(bmi, age_bmi, gender_bmi),
                   category |-> category(bmi)]
    /\ UNCHANGED page

\* "Predict Progress"
PredictProgress(current_weight, weekly_workouts, workout_duration_avg, diet_goal, weeks) ==
    /\ page = "Predictions"
    /\ op = "none"
    /\ op' = "PredictProgress"
    /\ inp' = [current_weight |-> current_weight,
               weekly_workouts |-> weekly_workouts,
               workout_duration_avg |-> workout_duration_avg,
               diet_goal |-> diet_goal, weeks |-> weeks]
    /\ LET net == net_weekly(current_weight, weekly_workouts,
                             workout_duration_avg, diet_goal)
       IN  out' = [projected_weight |-> WeightAt(current_weight, net, weeks),
                   series |-> ProjectedSeries(current_weight, net, weeks)]
    /\ UNCHANGED page

\* "Find My Fitness Profile"
FindProfile(user_weight, user_height, user_bpm, user_duration, user_frequency, user_experience, user_intensity) ==
    /\ page = "Fitness Profiles"
    /\ op = "none"
    /\ op' = "FindProfile"
    /\ inp' = [user_weight |-> user_weight, user_height |-> user_height,
               user_bpm |-> user_bpm, user_duration |-> user_duration,
               user_frequency |-> user_frequency,
               user_experience |-> user_experience,
               user_intensity |-> user_intensity]
    /\ LET bmi == calculate_bmi(user_weight, user_height)
           cluster == ProfileCluster(bmi, user_bpm, user_experience,
                                     user_duration, user_frequency, user_intensity)
       IN  out' = [cluster |-> cluster,
                   profile |-> get_fitness_cluster_profile(cluster)]
    /\ UNCHANGED page

\* "Generate Diet Plan"
GenerateDiet(diet_weight, diet_height, diet_goal) ==
    /\ page = "Diet Planner"
    /\ op = "none"
    /\ op' = "GenerateDiet"
    /\ inp' = [diet_weight |-> diet_weight, diet_height |-> diet_height,
               diet_goal |-> diet_goal]
    /\ LET bmi == calculate_bmi(diet_weight, diet_height)
           cluster == DietCluster(bmi, diet_goal)
       IN  out' = [cluster |-> cluster, plan |-> get_diet_plan(cluster, diet_goal)]
    /\ UNCHANGED page

\* "Generate Workout Plan"
GenerateWorkout(workout_experience, difficulty_pref, workout_days) ==
    /\ page = "Workout Recommender"
    /\ op = "none"
    /\ op' = "GenerateWorkout"
    /\ inp' = [workout_experience |-> workout_experience,
               difficulty_pref |-> difficulty_pref,
               workout_days |-> workout_days]
    /\ LET cluster == exp_to_cluster(workout_experience)
           wl == get_workout_recommendations(cluster, difficulty_pref).value
       IN  out' = [cluster |-> cluster, workouts |-> wl,
                   schedule |-> workout_schedule(wl, workout_days)]
    /\ UNCHANGED page

\* A direct call of calculate_calories_burned.
CallCaloriesBurned(duration, intensity, weight, age) ==
    /\ op = "none"
    /\ op' = "calculate_calories_burned"
    /\ inp' = [duration |-> duration, intensity |-> intensity,
               weight |-> weight, age |-> age]
    /\ out' = [raised |-> "none",
               value |-> calculate_calories_burned(duration, intensity, weight, age)]
    /\ UNCHANGED page

\* A direct call of calculate_bmi.
CallBmi(weight_kg, height_cm) ==
    /\ op = "none"
    /\ op' = "calculate_bmi"
    /\ inp' = [weight_kg |-> weight_kg, height_cm |-> height_cm]
    /\ out' = calculate_bmi(weight_kg, height_cm)
    /\ UNCHANGED page

\* A direct call of get_workout_recommendations.
CallGetWorkoutRecommendations(cluster_id, difficulty) ==
    /\ op = "none"
    /\ op' = "get_workout_recommendations"
    /\ inp' = [cluster_id |-> cluster_id, difficulty |-> difficulty]
    /\ out' = get_workout_recommendations(cluster_id, difficulty)
    /\ UNCHANGED page

\* A direct call of get_fitness_cluster_profile.
CallGetFitnessClusterProfile(cluster_id) ==
    /\ op = "none"
    /\ op' = "get_fitness_cluster_profile"
    /\ inp' = [cluster_id |-> cluster_id]
    /\ out' = [raised |-> "none", value |-> get_fitness_cluster_profile(cluster_id)]
    /\ UNCHANGED page

\* A direct call of get_diet_plan.
CallGetDietPlan(cluster_id, goal) ==
    /\ op = "none"
    /\ op' = "get_diet_plan"
    /\ inp' = [cluster_id |-> cluster_id, goal |-> goal]
    /\ out' = [plan |-> get_diet_plan(cluster_id, goal)]
    /\ UNCHANGED page

Next ==
    \/ \E p \in Pages : SelectPage(p)
    \/ \E age \in Ages, weight \in CalWeights, duration \in CalDurations,
          gender \in Genders, intensity \in Intensities,
          workout_type \in WorkoutTypes :
            PredictCalories(age, weight, duration, gender, intensity, workout_type)
    \/ \E current_weight \in ProjWeights, weekly_workouts \in ProjWorkouts,
          workout_duration_avg \in ProjDurations, diet_goal \in ProjectionGoals,
          weeks \in Weeks :
            PredictProgress(current_weight, weekly_workouts, workout_duration_avg,
                            diet_goal, weeks)
    \/ \E user_weight \in ProfileWeights, user_height \in ProfileHeights,
          user_bpm \in ProfileBpms, user_duration \in ProfileDurations,
          user_frequency \in WeeklyWorkouts, user_experience \in Experiences,
          user_intensity \in Intensities :
            FindProfile(user_weight, user_height, user_bpm, user_duration,
                        user_frequency, user_experience, user_intensity)
    \/ \E diet_weight \in DietWeights, diet_height \in DietHeights,
          diet_goal \in DietGoals :
            GenerateDiet(diet_weight, diet_height, diet_goal)
    \/ \E workout_experience \in Experiences, difficulty_pref \in Difficulties,
          workout_days \in WorkoutDays :
            GenerateWorkout(workout_experience, difficulty_pref, workout_days)
    \/ \E weight_bmi \in BodyWeights, height_cm \in BodyHeights,
          age_bmi \in BodyAges, gender_bmi \in Genders :
            AnalyzeBody(weight_bmi, height_cm, age_bmi, gender_bmi)
    \/ \E duration \in CallDurations, intensity \in AnyIntensity,
          weight \in CallWeights, age \in Ages :
            CallCaloriesBurned(duration, intensity, weight, age)
    \/ \E weight_kg \in BmiWeights, height_cm \in BmiHeights :
            CallBmi(weight_kg, height_cm)
    \/ \E cluster_id \in AnyCluster, difficulty \in AnyDifficulty :
            CallGetWorkoutRecommendations(cluster_id, difficulty)
    \/ \E cluster_id \in AnyCluster : CallGetFitnessClusterProfile(cluster_id)
    \/ \E cluster_id \in AnyCluster, goal \in AnyGoal :
            CallGetDietPlan(cluster_id, goal)

Spec == Init /\ [][Next]_vars

(***************************************************************************)
(* Properties.                                                             *)
(***************************************************************************)

\* The hundredths b that are nearest to num / 200 (both neighbours at a tie).
IsRound2(b, num) == (200 * b - num <= 100) /\ (num - 200 * b <= 100)

Rule1 ==
    inp.user_bpm > 175 /\ inp.user_experience = "Elite" /\ inp.user_duration > 60

Rule2 ==
    /\ inp.user_experience \in {"Advanced", "Elite"}
    /\ inp.user_intensity \in {"High", "Very High"}

Rule3 == inp.user_experience = "Intermediate" /\ inp.user_frequency >= 3

Rule4 == inp.user_experience = "Beginner" \/ inp.user_frequency <= 2

BmiOver30 == inp.user_weight * 10000 > 30 * (inp.user_height * inp.user_height)

\* C1: the profile-mode cluster is the result of the first matching rule of
\* the ordered list (0, 1, 2, 3, then 4 if bmi > 30 else 2); an input that
\* matches rule 1 and rule 2 gets 0; the result is always in 0..4.
C1_FirstMatchWins ==
    op = "FindProfile" =>
        /\ out.cluster \in 0..4
        /\ Rule1 => out.cluster = 0
        /\ (~Rule1 /\ Rule2) => out.cluster = 1
        /\ (~Rule1 /\ ~Rule2 /\ Rule3) => out.cluster = 2
        /\ (~Rule1 /\ ~Rule2 /\ ~Rule3 /\ Rule4) => out.cluster = 3
        /\ (~Rule1 /\ ~Rule2 /\ ~Rule3 /\ ~Rule4 /\ BmiOver30) => out.cluster = 4
        /\ (~Rule1 /\ ~Rule2 /\ ~Rule3 /\ ~Rule4 /\ ~BmiOver30) => out.cluster = 2

\* An Elite user above 175 bpm and 60 min at High intensity: rules 1 and 2
\* both match, and the result is 0.
C1_Witness ==
    op = "FindProfile" /\ Rule1 /\ Rule2 /\ out.cluster = 0

ClaimMet(intensity) ==
    CASE intensity = "Low" -> 35
      [] intensity = "Medium" -> 60
      [] intensity = "High" -> 85
      [] intensity = "Very High" -> 105
      [] OTHER -> 60

ClaimGenderFactor(gender) == IF gender = "Male" THEN 11 ELSE 10

ClaimTypeFactor(t) ==
    CASE t = "Cardio" -> 12
      [] t = "Strength" -> 9
      [] t = "HIIT" -> 15
      [] t = "Yoga" -> 6
      [] t = "Sports" -> 13
      [] OTHER -> 10

\* C2: the calorie estimate is round2(MET * 3.5 * weight / 200 * duration)
\* times the gender factor times the type factor, with the MET and factor
\* tables of the claim (MET 6.0 for an unknown intensity); the base is
\* rounded to 2 decimals, the product is not rounded again.
C2_CalorieFormula ==
    /\ op = "PredictCalories" =>
        /\ IsRound2(out.base, ClaimMet(inp.intensity) * 35 * inp.weight * inp.duration)
        /\ out.calories = out.base * ClaimGenderFactor(inp.gender)
                                   * ClaimTypeFactor(inp.workout_type)
    /\ op = "calculate_calories_burned" =>
        IsRound2(out.value, ClaimMet(inp.intensity) * 35 * inp.weight * inp.duration)

\* A result with more than two decimals: the base was rounded, the product
\* was not.
C2_Witness ==
    /\ op = "PredictCalories"
    /\ (ClaimMet(inp.intensity) * 35 * inp.weight * inp.duration) % 200 # 0
    /\ out.calories % 100 # 0

\* An unknown intensity takes the Medium MET.
C2_WitnessDefault ==
    op = "calculate_calories_burned" /\ inp.intensity = "Extreme"

C3_Case ==
    /\ op = "PredictCalories"
    /\ inp.duration = 45 /\ inp.intensity = "Medium" /\ inp.weight = 70
    /\ inp.age = 30 /\ inp.gender = "Male" /\ inp.workout_type = "Cardio"

\* C3 as stated: for 45 min, Medium, 70 kg, age 30, Male, Cardio the rounded
\* base is 66.15 and the final result is 87.32.
C3_Original ==
    C3_Case => (out.base = 6615 /\ out.calories = 873200)

\* C3 amended: for 45 min, Medium, 70 kg, age 30, Male, Cardio the rounded
\* base is 330.75 and the final result (base * 1.1 * 1.2) is 436.59.
C3_Example ==
    C3_Case => (out.base = 33075 /\ out.calories = 4365900)

C3_Witness == C3_Case /\ out.base = 33075

ClaimDeficit(goal) ==
    CASE goal = "Weight Loss" -> -500
      [] goal = "Maintenance" -> 0
      [] goal = "Muscle Gain" -> 300

\* C4: finalWeight = currentWeight + ((B * weeklyWorkouts + D * 7) / 7700) * weeks
\* with D = -500 / 0 / +300 and B the rounded base estimate at Medium
\* intensity (MET 6.0), with no gender or workout-type factor.
C4_Projection ==
    op = "PredictProgress" =>
        \E B \in { (21 * inp.current_weight * inp.workout_duration_avg) \div 2,
                   (21 * inp.current_weight * inp.workout_duration_avg) \div 2 + 1 } :
            /\ IsRound2(B, 60 * 35 * inp.current_weight * inp.workout_duration_avg)
            /\ out.projected_weight =
                   inp.current_weight * 770000
                   + (B * inp.weekly_workouts + ClaimDeficit(inp.diet_goal) * 7 * 100)
                     * inp.weeks

\* The example of the specification: 75 kg, 4 workouts of 45 min a week,
\* Weight Loss, 12 weeks.
C4_Witness ==
    /\ op = "PredictProgress"
    /\ inp.current_weight = 75 /\ inp.weekly_workouts = 4
    /\ inp.workout_duration_avg = 45 /\ inp.diet_goal = "Weight Loss"
    /\ inp.weeks = 12
    /\ out.projected_weight < inp.current_weight * 770000

ClaimStep == Max(1, inp.weeks \div 10)

\* C5 as stated: for every number of weeks in 4..52 the series has at most
\* 10 sample points in addition to the week-0 point (at most 11 in total).
C5_Original ==
    op = "PredictProgress" => Len(out.series) <= 11

\* C5 amended: the series has weeks // max(1, weeks // 10) sample points in
\* addition to the week-0 point, which is at most 19 (at most 20 points in
\* total).
C5_SampleCount ==
    op = "PredictProgress" =>
        /\ Len(out.series) = (inp.weeks \div ClaimStep) + 1
        /\ Len(out.series) <= 20

\* 19 weeks, sampled every week: 20 points.
C5_Witness ==
    op = "PredictProgress" /\ inp.weeks = 19 /\ Len(out.series) = 20

\* C6: the series starts at (0, currentWeight), its weeks increase by the step
\* max(1, weeks // 10), and its last point is (weeks, finalWeight).
C6_EndsAtFinalWeek ==
    op = "PredictProgress" =>
        /\ out.series[1] = [week |-> 0, weight |-> inp.current_weight * 770000]
        /\ \A i \in 1..(Len(out.series) - 1) :
               out.series[i + 1].week = out.series[i].week + ClaimStep
        /\ out.series[Len(out.series)] =
               [week |-> inp.weeks, weight |-> out.projected_weight]

TrainingSlots == { k \in 1..7 : out.schedule[k].workout # RestDay }

\* C7: the schedule maps Monday..Sunday, in order, to a value; exactly the
\* first daysPerWeek days hold an entry of the selected workout list and
\* exactly the other 7 - daysPerWeek days are Rest.
C7_ScheduleShape ==
    op = "GenerateWorkout" =>
        /\ Len(out.schedule) = 7
        /\ [k \in 1..7 |-> out.schedule[k].day]
               = <<"Monday", "Tuesday", "Wednesday", "Thursday", "Friday",
                   "Saturday", "Sunday">>
        /\ \A k \in 1..7 :
               IF k <= inp.workout_days
               THEN \E j \in 1..Len(out.workouts) :
                        out.schedule[k].workout = out.workouts[j]
               ELSE out.schedule[k].workout = RestDay
        /\ TrainingSlots = 1..inp.workout_days
        /\ Cardinality((1..7) \ TrainingSlots) = 7 - inp.workout_days

\* Five days a week: 5 training days and 2 rest days.
C7_Witness ==
    /\ op = "GenerateWorkout" /\ inp.workout_days = 5
    /\ Cardinality(TrainingSlots) = 5
    /\ out.schedule[6].workout = RestDay /\ out.schedule[7].workout = RestDay

\* C8: two adjacent training days are assigned different workout-list
\* entries whenever the list has at least 2 entries.
C8_AdjacentDiffer ==
    (op = "GenerateWorkout" /\ Len(out.workouts) >= 2) =>
        \A k \in 1..6 :
            (k + 1 <= inp.workout_days) =>
                out.schedule[k].workout # out.schedule[k + 1].workout

\* C9: training day-index i is assigned list[i mod len] when i is even and
\* list[(i+1) mod len] when i is odd, and the index used is in 0..len-1.
C9_ParitySelection ==
    op = "GenerateWorkout" =>
        LET len == Len(out.workouts)
        IN  /\ len >= 1
            /\ \A i \in 0..(inp.workout_days - 1) :
                   LET idx == IF i % 2 = 0 THEN i % len ELSE (i + 1) % len
                   IN  /\ idx \in 0..(len - 1)
                       /\ out.schedule[i + 1].workout = out.workouts[idx + 1]

\* A full week on a 3-entry list: day-index 3 takes index (3+1) mod 3 = 1.
C9_Witness ==
    /\ op = "GenerateWorkout" /\ inp.workout_days = 7 /\ Len(out.workouts) = 3
    /\ out.schedule[4].workout = out.workouts[2]

ClaimPlanGoal(goal) ==
    IF goal \in {"Weight Loss", "Muscle Gain", "Maintenance", "Endurance"}
    THEN goal ELSE "Maintenance"

\* C10: the plan returned depends on the goal only: whatever the cluster id,
\* it is the plan of the goal (the Maintenance plan for any other goal
\* value); the four plans differ and each has exactly 4 sample meals.
C10_PlanByGoalOnly ==
    /\ op = "get_diet_plan" =>
        /\ out.plan = diets[ClaimPlanGoal(inp.goal)]
        /\ Len(out.plan.meals) = 4
    /\ op = "GenerateDiet" =>
        /\ out.plan = diets[inp.diet_goal]
        /\ Len(out.plan.meals) = 4
    /\ \A g1, g2 \in DietGoals : diets[g1] = diets[g2] => g1 = g2

\* An unknown goal with cluster id 4 gets the Maintenance plan.
C10_Witness ==
    /\ op = "get_diet_plan" /\ inp.goal = "General Fitness" /\ inp.cluster_id = 4
    /\ out.plan.calories = "2000-2400 kcal/day"

DietBmiBelow22 == inp.diet_weight * 10000 < 22 * (inp.diet_height * inp.diet_height)

DietBmiAbove28 == inp.diet_weight * 10000 > 28 * (inp.diet_height * inp.diet_height)

\* C11: the diet-planning cluster is 1 if (bmi < 22 and goal = Muscle Gain),
\* else 0 if goal = Endurance, else 4 if (bmi > 28 and goal = Weight Loss),
\* else 2; it is computed from weight, height and goal alone.
C11_DietRules ==
    op = "GenerateDiet" =>
        /\ DOMAIN inp = {"diet_weight", "diet_height", "diet_goal"}
        /\ out.cluster =
               IF DietBmiBelow22 /\ inp.diet_goal = "Muscle Gain" THEN 1
               ELSE IF inp.diet_goal = "Endurance" THEN 0
               ELSE IF DietBmiAbove28 /\ inp.diet_goal = "Weight Loss" THEN 4
               ELSE 2

\* 88 kg at 2.00 m is a bmi of exactly 22: Muscle Gain then gives 2, not 1.
C11_Witness ==
    /\ op = "GenerateDiet" /\ inp.diet_goal = "Muscle Gain"
    /\ inp.diet_weight = 88 /\ inp.diet_height = 200 /\ out.cluster = 2

ClaimFatDen == 100 * (inp.height_cm * inp.height_cm)

ClaimFatRaw ==
    120 * (inp.weight_bmi * 10000)
    + (23 * inp.age_bmi - (IF inp.gender_bmi = "Male" THEN 1620 ELSE 540))
      * (inp.height_cm * inp.height_cm)

\* C12: the reported body fat lies in [5, 50]; it is 1.20*BMI + 0.23*age - 16.2
\* (Male) or - 5.4 (otherwise) when that value is within [5, 50], 5 when it
\* is below 5 and 50 when it is above 50.
C12_BodyFatClamped ==
    op = "AnalyzeBody" =>
        /\ out.body_fat.den = ClaimFatDen
        /\ out.body_fat.num >= 5 * ClaimFatDen
        /\ out.body_fat.num <= 50 * ClaimFatDen
        /\ (ClaimFatRaw >= 5 * ClaimFatDen /\ ClaimFatRaw <= 50 * ClaimFatDen)
               => out.body_fat.num = ClaimFatRaw
        /\ ClaimFatRaw < 5 * ClaimFatDen => out.body_fat.num = 5 * ClaimFatDen
        /\ ClaimFatRaw > 50 * ClaimFatDen => out.body_fat.num = 50 * ClaimFatDen

\* A light, tall, young man: the formula is below 5 and 5 is reported.
C12_Witness ==
    /\ op = "AnalyzeBody" /\ ClaimFatRaw < 5 * ClaimFatDen
    /\ out.body_fat.num = 5 * ClaimFatDen

\* bmi * 10 against n (in tenths), from the inputs
BodyBmiLt(n) == inp.weight_bmi * 100000 < n * (inp.height_cm * inp.height_cm)

\* C13: Underweight iff bmi < 18.5, Normal iff 18.5 <= bmi < 25, Overweight
\* iff 25 <= bmi < 30, Obese iff bmi >= 30: one category for every bmi, the
\* boundary values in the upper one.
C13_CategoryLadder ==
    op = "AnalyzeBody" =>
        /\ out.category \in {"Underweight", "Normal Weight", "Overweight", "Obese"}
        /\ out.category = "Underweight" <=> BodyBmiLt(185)
        /\ out.category = "Normal Weight" <=> (~BodyBmiLt(185) /\ BodyBmiLt(250))
        /\ out.category = "Overweight" <=> (~BodyBmiLt(250) /\ BodyBmiLt(300))
        /\ out.category = "Obese" <=> ~BodyBmiLt(300)

\* 100 kg at 2.00 m is a bmi of exactly 25: Overweight.
C13_Witness ==
    /\ op = "AnalyzeBody" /\ inp.weight_bmi = 100 /\ inp.height_cm = 200
    /\ out.category = "Overweight"

\* a < b for two bmi fractions; the numerators are whole multiples of 10000
\* (kg over cm^2 taken to kg over m^2), which is divided out first.
BmiLess(a, b) == (a.num \div 10000) * b.den < (b.num \div 10000) * a.den

\* C14: for weight > 0 and height > 0 the BMI is weight / height^2; at the
\* same height a larger weight gives a strictly larger BMI, at the same
\* weight a larger height gives a strictly smaller BMI.
C14_BmiMonotone ==
    (op = "calculate_bmi" /\ inp.weight_kg > 0 /\ inp.height_cm > 0) =>
        /\ out.raised = "none"
        /\ out.num = inp.weight_kg * 10000
        /\ out.den = inp.height_cm * inp.height_cm
        /\ \A w2 \in BmiWeights :
               w2 > inp.weight_kg => BmiLess(out, calculate_bmi(w2, inp.height_cm))
        /\ \A h2 \in BmiHeights :
               h2 > inp.height_cm => BmiLess(calculate_bmi(inp.weight_kg, h2), out)

\* 70 kg at 1.75 m, with a heavier weight and a taller height to compare to.
C14_Witness ==
    /\ op = "calculate_bmi" /\ inp.weight_kg = 70 /\ inp.height_cm = 175
    /\ out.raised = "none"

ClaimCluster(c) == IF c \in 0..4 THEN c ELSE 2

ClaimDifficulty(d) == IF d \in {"Low", "Medium", "High"} THEN d ELSE "Medium"

\* C15: every table lookup falls back to a default instead of failing:
\* get_workout_recommendations returns a list for every cluster id (the menu
\* of archetype 2 for an id outside 0..4) and every difficulty (the Medium
\* list for an unknown one), and get_fitness_cluster_profile returns the
\* profile of archetype 2 for an id outside 0..4.
C15_LookupsFallBack ==
    /\ op = "get_workout_recommendations" =>
        /\ out.raised = "none"
        /\ out.value =
               workouts[ClaimCluster(inp.cluster_id)][ClaimDifficulty(inp.difficulty)]
    /\ op = "get_fitness_cluster_profile" =>
        /\ out.raised = "none"
        /\ out.value = profiles[ClaimCluster(inp.cluster_id)]

BadBmiInput == op = "calculate_bmi" /\ inp.height_cm <= 0

BadCalorieInput ==
    op = "calculate_calories_burned" /\ (inp.weight <= 0 \/ inp.duration <= 0)

\* C16 as stated: a BMI with height <= 0, or a calorie estimate with
\* weight <= 0 or duration <= 0, ends in InvalidInputError, and no
\* computation ends in any other kind of failure.
C16_Original ==
    /\ (BadBmiInput \/ BadCalorieInput) => out.raised = "InvalidInputError"
    /\ op \in {"calculate_bmi", "calculate_calories_burned"} =>
           out.raised \in {"none", "InvalidInputError"}

\* C16 amended: no input is validated and nothing ends in InvalidInputError:
\* a BMI with height = 0 ends in ZeroDivisionError, a BMI with height < 0
\* is the number weight / height^2, and a calorie estimate with weight <= 0
\* or duration <= 0 is the number the formula gives (zero or negative when
\* exactly one of the two is not positive).
C16_NoValidation ==
    /\ op = "calculate_bmi" =>
        /\ inp.height_cm = 0 => out.raised = "ZeroDivisionError"
        /\ inp.height_cm # 0 =>
               /\ out.raised = "none"
               /\ out.num = inp.weight_kg * 10000
               /\ out.den = inp.height_cm * inp.height_cm
    /\ op = "calculate_calories_burned" =>
        /\ out.raised = "none"
        /\ IsRound2(out.value, ClaimMet(inp.intensity) * 35 * inp.weight * inp.duration)
        /\ (inp.weight <= 0 /\ inp.duration > 0) => out.value <= 0
        /\ (inp.weight > 0 /\ inp.duration <= 0) => out.value <= 0

\* A negative weight gives a negative estimate.
C16_Witness ==
    /\ op = "calculate_calories_burned" /\ inp.weight < 0 /\ inp.duration > 0
    /\ out.raised = "none" /\ out.value < 0

\* The division by a zero height is the one failure.
C16_WitnessZero ==
    op = "calculate_bmi" /\ inp.height_cm = 0 /\ out.raised = "ZeroDivisionError"

\* C17: the calorie estimate is the same for every age, the other arguments
\* being equal.
C17_AgeIgnored ==
    /\ op = "calculate_calories_burned" =>
        \A a \in Ages \cup BodyAges :
            calculate_calories_burned(inp.duration, inp.intensity, inp.weight, a)
                = out.value
    /\ op = "PredictCalories" =>
        \A a \in Ages \cup BodyAges :
            calculate_calories_burned(inp.duration, inp.intensity, inp.weight, a)
                = out.base

\* An estimate for an age other than the reference age 30.
C17_Witness ==
    /\ op = "calculate_calories_burned" /\ inp.age # 30
    /\ inp.weight > 0 /\ inp.duration > 0 /\ out.value > 0

ProjectedFor(ww, d) ==
    WeightAt(inp.current_weight,
             net_weekly(inp.current_weight, ww, d, inp.diet_goal), inp.weeks)

\* C18: under Maintenance the projected weight is strictly above the
\* current weight; for any goal it does not decrease when the number of
\* weekly workouts or the average duration grows.
C18_BurnIsAdded ==
    op = "PredictProgress" =>
        /\ inp.diet_goal = "Maintenance" =>
               out.projected_weight > inp.current_weight * 770000
        /\ \A ww \in ProjWorkouts :
               ww >= inp.weekly_workouts =>
                   ProjectedFor(ww, inp.workout_duration_avg) >= out.projected_weight
        /\ \A d \in ProjDurations :
               d >= inp.workout_duration_avg =>
                   ProjectedFor(inp.weekly_workouts, d) >= out.projected_weight

\* Maintenance, and more workouts would project a strictly higher weight.
C18_Witness ==
    /\ op = "PredictProgress" /\ inp.diet_goal = "Maintenance"
    /\ inp.weekly_workouts = 1
    /\ out.projected_weight > inp.current_weight * 770000
    /\ ProjectedFor(7, inp.workout_duration_avg) > out.projected_weight

\* C19: archetype 4 is returned only for an Advanced or Elite user at Low or
\* Medium intensity with frequency >= 3 and bmi > 30; a Beginner, an
\* Intermediate, or anyone with frequency <= 2 never gets 4.
C19_HealthFocusOnly ==
    op = "FindProfile" =>
        /\ out.cluster = 4 =>
               /\ inp.user_experience \in {"Advanced", "Elite"}
               /\ inp.user_intensity \in {"Low", "Medium"}
               /\ inp.user_frequency >= 3
               /\ BmiOver30
        /\ (inp.user_experience \in {"Beginner", "Intermediate"}
            \/ inp.user_frequency <= 2) => out.cluster # 4

\* A Beginner with a bmi above 30 is classified 3, not 4.
C19_Witness ==
    /\ op = "FindProfile" /\ inp.user_experience = "Beginner" /\ BmiOver30
    /\ inp.user_frequency >= 3 /\ out.cluster = 3

\* Some user is classified 4.
C19_WitnessFour == op = "FindProfile" /\ out.cluster = 4

\* C20: with the 4-entry list (archetype 0, difficulty High) the schedule
\* uses the entries at list index 0 and 2 only; the entries at index 1 and 3
\* are assigned to no day, whatever daysPerWeek is.
C20_FourEntryList ==
    (op = "GenerateWorkout" /\ Len(out.workouts) = 4) =>
        /\ out.cluster = 0 /\ inp.difficulty_pref = "High"
        /\ \A k \in 1..7 :
               /\ out.schedule[k].workout # out.workouts[2]
               /\ out.schedule[k].workout # out.workouts[4]
               /\ k <= inp.workout_days =>
                      out.schedule[k].workout \in {out.workouts[1], out.workouts[3]}

\* A full week on the 4-entry list: index 0 and index 2 are both in use.
C20_Witness ==
    /\ op = "GenerateWorkout" /\ Len(out.workouts) = 4 /\ inp.workout_days = 7
    /\ out.schedule[1].workout = out.workouts[1]
    /\ out.schedule[2].workout = out.workouts[3]

====
